---- MODULE Spec2Model ----
(***************************************************************************)
(* Invoice processor: the durable upload workflow                          *)
(* (InvoiceOperations.invoiceProcessingWorkflow and its steps and          *)
(* transactions), the relational store it writes (invoices, line_items),   *)
(* and the HTTP endpoints that move an invoice through its review          *)
(* statuses (submit-for-approval, approve, reject, assign, update,         *)
(* delete).                                                                *)
(*                                                                         *)
(* SpecWF runs uploads through the workflow with crashes, Spec the review   *)
(* of one invoice, SpecUpload one upload request from the HTTP layer on,   *)
(* SpecRules the status decision and the storing and reading back of the   *)
(* invoice, SpecLines the storing and reading of line items, both on any   *)
(* extraction, SpecFile the workflow on any file object, and SpecLive the  *)
(* review of one invoice with requests without end, under fairness.        *)
(*                                                                         *)
(* Amounts are in cents, confidences in hundredths.  Invoice ids are the   *)
(* positions of the rows in the invoices table, workflow ids the positions *)
(* of the runs in wfs: both are generated fresh by the database / the      *)
(* workflow engine.                                                        *)
(***************************************************************************)
EXTENDS Integers, Sequences, FiniteSets, TLC

\* ------------------------------------------------------------------ bounds
MaxUploads  == 2     \* upload requests in a run of SpecWF
MaxCrashes  == 1     \* process crashes in a run of SpecWF
MaxRequests == 3     \* state-transition requests in a run of Spec

\* --------------------------------------------------------------- constants
\* src/constants.ts: enum InvoiceStatus
InvoiceStatus == {"processing", "needs_review", "awaiting_approval", "approved", "rejected"}

\* migrations: table.enum('status', [...]) -- the CHECK constraint of invoices.status
StatusColumn == {"processing", "needs_review", "awaiting_approval", "approved", "rejected"}

\* BUSINESS_RULES
CONFIDENCE_THRESHOLD_AUTO_APPROVAL == 95
LOW_CONFIDENCE_THRESHOLD == 75
MATH_TOLERANCE == 1
MAX_FILE_SIZE_BYTES == 10485760

\* users table rows (seeded users) and their role column
Users == {"clerk1", "manager1", "manager2"}
UserRole == [u \in Users |-> IF u = "clerk1" THEN "finance_clerk" ELSE "finance_manager"]

NULL == "null"                \* SQL NULL / a missing row
Undefined == "undefined"      \* a JavaScript argument left undefined
BadId == "not-a-uuid"         \* a missing or malformed user id

\* Upload requests: the file multer hands to the handler.  Sending the same
\* record again is a retry of the same upload.
UploadFiles ==
    { [originalname |-> "inv.pdf", mimetype |-> "application/pdf", size |-> 2048, bytes |-> b] :
        b \in {"bytesA", "bytesB"} }

VARIABLES
    now,        \* last value Date.now() returned
    files,      \* upload directory: set of [path, bytes]
    wfs,        \* workflow runs known to the engine, by workflow id
    invoices,   \* invoices table, by id
    lineItems,  \* line_items table: set of rows
    crashes,    \* process crashes so far
    reqs,       \* per client: the state-transition request it has in flight / its last response
    sent,       \* state-transition requests received so far
    lastUpload, \* the last upload request the server answered, and its answer
    rules,      \* a status decision: the extraction given to it and the status returned
    lines       \* a line-item round trip: the items extracted and the items read back

\* the variables the workflow and the state-transition endpoints do not touch
extraVars == <<lastUpload, rules, lines>>

vars == <<now, files, wfs, invoices, lineItems, crashes, reqs, sent, extraVars>>

\* ------------------------------------------------------------- pure steps
Abs(x) == IF x < 0 THEN 0 - x ELSE x

RECURSIVE SumLineTotals(_)
SumLineTotals(items) ==
    IF items = <<>> THEN 0 ELSE Head(items).lineTotal + SumLineTotals(Tail(items))

\* validateFileStep: "ok" or the error it throws (the type is checked first)
validateFileStep(file) ==
    IF file.mimetype \notin {"application/pdf", "image/png", "image/jpeg", "image/jpg"}
    THEN "INVALID_FILE_FORMAT"
    ELSE IF file.size > MAX_FILE_SIZE_BYTES THEN "FILE_TOO_LARGE" ELSE "ok"

\* saveFileStep: `${timestamp}-${basename}${extension}` under the upload directory
SavedPath(timestamp, originalname) == <<timestamp, originalname>>

\* extractInvoiceDataStep: the fixed extraction shipped in the repository
ExtractedData ==
    [ subtotal |-> 100000, taxAmount |-> 8000, totalAmount |-> 108000,
      lineItems |-> << [lineTotal |-> 100000, lineNumber |-> 1] >> ]
\* the confidence of the totalAmount field taken for the overall confidence
ExtractedConfidenceOfTotal == [overallConfidence |-> 97]
ExtractedConfidence == [overallConfidence |-> 93]
extractInvoiceDataStep(filePath) == [extractedData |-> ExtractedData, confidence |-> ExtractedConfidence]

\* Amounts are integer cents.  The code holds them as IEEE-754 doubles and
\* compares Math.abs(x - y) > 0.01: for amounts that differ by two cents or
\* more, or by less than one, the double comparison agrees with the exact
\* one; for amounts exactly one cent apart the rounding of the operands
\* decides.  RoundsAboveTolerance lists the one-cent pairs <<x, y>> of the
\* amounts used here for which the doubles give Math.abs(x - y) > 0.01
\* (|2.01 - 2.02| = 0.010000000000000231, |2.18 - 2.17| = 0.010000000000000231,
\*  while |2.01 - 2.00| = 0.009999999999999787, |2.16 - 2.17| likewise).
RoundsAboveTolerance == { <<201, 202>>, <<218, 217>> }
AboveTolerance(x, y) ==
    IF Abs(x - y) = MATH_TOLERANCE THEN <<x, y>> \in RoundsAboveTolerance
    ELSE Abs(x - y) > MATH_TOLERANCE

\* validateBusinessRulesStep without the comparison of the line items with the subtotal
validateBusinessRulesStepTotalOnly(extractedData, confidence) ==
    IF confidence.overallConfidence < LOW_CONFIDENCE_THRESHOLD THEN "needs_review"
    ELSE LET totalDiff == AboveTolerance(extractedData.subtotal + extractedData.taxAmount,
                                         extractedData.totalAmount)
         IN IF totalDiff THEN "needs_review"
            ELSE IF confidence.overallConfidence >= CONFIDENCE_THRESHOLD_AUTO_APPROVAL
                 THEN "awaiting_approval"
                 ELSE "needs_review"

\* validateBusinessRulesStep deciding on the arithmetic alone
validateBusinessRulesStepNoConfidence(extractedData, confidence) ==
    LET lineItemsTotal == SumLineTotals(extractedData.lineItems)
        subtotalDiff == AboveTolerance(lineItemsTotal, extractedData.subtotal)
        totalDiff == AboveTolerance(extractedData.subtotal + extractedData.taxAmount,
                                    extractedData.totalAmount)
    IN IF subtotalDiff \/ totalDiff THEN "needs_review"
       ELSE "awaiting_approval"

\* validateBusinessRulesStep with an exclusive auto-approval threshold
validateBusinessRulesStepExclusive(extractedData, confidence) ==
    IF confidence.overallConfidence < LOW_CONFIDENCE_THRESHOLD THEN "needs_review"
    ELSE LET lineItemsTotal == SumLineTotals(extractedData.lineItems)
             subtotalDiff == AboveTolerance(lineItemsTotal, extractedData.subtotal)
             totalDiff == AboveTolerance(extractedData.subtotal + extractedData.taxAmount,
                                         extractedData.totalAmount)
         IN IF subtotalDiff \/ totalDiff THEN "needs_review"
            ELSE IF confidence.overallConfidence > CONFIDENCE_THRESHOLD_AUTO_APPROVAL
                 THEN "awaiting_approval"
                 ELSE "needs_review"

\* validateBusinessRulesStep; subtotalDiff and totalDiff stand for the two
\* comparisons with BUSINESS_RULES.MATH_TOLERANCE
validateBusinessRulesStep(extractedData, confidence) ==
    IF confidence.overallConfidence < LOW_CONFIDENCE_THRESHOLD THEN "needs_review"
    ELSE LET lineItemsTotal == SumLineTotals(extractedData.lineItems)
             subtotalDiff == AboveTolerance(lineItemsTotal, extractedData.subtotal)
             totalDiff == AboveTolerance(extractedData.subtotal + extractedData.taxAmount,
                                         extractedData.totalAmount)
         IN IF subtotalDiff \/ totalDiff THEN "needs_review"
            ELSE IF confidence.overallConfidence >= CONFIDENCE_THRESHOLD_AUTO_APPROVAL
                 THEN "awaiting_approval"
                 ELSE "needs_review"

\* ------------------------------------------------------------------ store
\* the CHECK constraint on invoices.status: an INSERT/UPDATE outside it raises
RowAccepted(row) == row.status \in StatusColumn

\* getInvoiceByIdTransaction: the rows of `where id = invoiceId` (.first() of
\* an empty result is null): <<row>> or <<>>
getInvoiceByIdTransaction(invoiceId) ==
    IF invoiceId \in 1..Len(invoices) THEN <<invoices[invoiceId]>> ELSE <<>>

\* line items of an invoice as read back (orderBy line_number)
LineItemsOf(invoiceId) == {li \in lineItems : li.invoice_id = invoiceId}

\* createLineItemsTransaction: the rows it inserts
createLineItemsTransaction(invoiceId, items) ==
    { [invoice_id |-> invoiceId, line_number |-> items[k].lineNumber,
       line_total |-> items[k].lineTotal] : k \in 1..Len(items) }

\* ------------------------------------------------------- workflow engine
\* A run: its input, the number of operations whose result is checkpointed
\* (done), whether the operation after them has executed without its result
\* being recorded yet (mid, with the result in tmp), the engine's status for
\* the run, and whether a process is executing it.  execs counts how often
\* each of the seven operations has executed.
Ops == 1..7
NewRun(file) ==
    [ file |-> file, done |-> 0, mid |-> FALSE, tmp |-> NULL, status |-> "PENDING",
      running |-> TRUE, filePath |-> NULL, decided |-> NULL, invoiceId |-> 0,
      execs |-> [o \in Ops |-> 0] ]

WfIds == 1..Len(wfs)

\* AtOp without the position: any operation of a running run may execute
AtOpAnyOrder(w, op) ==
    /\ w \in WfIds
    /\ wfs[w].status = "PENDING" /\ wfs[w].running
    /\ ~wfs[w].mid

AtOp(w, op) ==
    /\ w \in WfIds
    /\ wfs[w].status = "PENDING" /\ wfs[w].running
    /\ wfs[w].done = op - 1 /\ ~wfs[w].mid

Executed(run, op) == [run EXCEPT !.execs[op] = @ + 1]

\* POST /api/invoices/upload: starts a run under a workflow id of its own
UploadRequest(limit) ==
    \E file \in UploadFiles :
        /\ Len(wfs) < limit
        /\ wfs' = Append(wfs, NewRun(file))
        /\ UNCHANGED <<extraVars, now, files, invoices, lineItems, crashes, reqs, sent>>

\* Step 1
ValidateFile(w) ==
    /\ AtOp(w, 1)
    /\ LET v == validateFileStep(wfs[w].file)
           run == Executed(wfs[w], 1)
       IN wfs' = [wfs EXCEPT ![w] =
                    IF v = "ok" THEN [run EXCEPT !.mid = TRUE, !.tmp = "ok"]
                    ELSE [run EXCEPT !.status = "ERROR", !.running = FALSE, !.tmp = v]]
    /\ UNCHANGED <<extraVars, now, files, invoices, lineItems, crashes, reqs, sent>>

\* Step 2: saveFileStep reads the clock, writes the file, returns the path.
\* Date.now() is the millisecond of the previous reading or a later one
\* (timestamps are only compared for equality, so "later" is now + 1).
SaveFile(w) ==
    /\ AtOp(w, 2)
    /\ \E timestamp \in {now, now + 1} :
        LET filePath == SavedPath(timestamp, wfs[w].file.originalname)
        IN /\ now' = timestamp
           /\ files' = {f \in files : f.path # filePath}
                         \cup {[path |-> filePath, bytes |-> wfs[w].file.bytes]}
           /\ wfs' = [wfs EXCEPT ![w] = [Executed(@, 2) EXCEPT !.mid = TRUE, !.tmp = filePath]]
    /\ UNCHANGED <<extraVars, invoices, lineItems, crashes, reqs, sent>>

\* Step 2 raising with the exception swallowed: the run goes on without a path
SaveFileFailsUnnoticed(w) ==
    /\ AtOp(w, 2)
    /\ wfs' = [wfs EXCEPT ![w] = [Executed(@, 2) EXCEPT !.mid = TRUE, !.tmp = NULL]]
    /\ UNCHANGED <<extraVars, now, files, invoices, lineItems, crashes, reqs, sent>>

\* Step 2 raising (fs.mkdir / fs.writeFile rejects): the run fails
SaveFileFails(w) ==
    /\ AtOp(w, 2)
    /\ wfs' = [wfs EXCEPT ![w] =
                 [Executed(@, 2) EXCEPT !.status = "ERROR", !.running = FALSE]]
    /\ UNCHANGED <<extraVars, now, files, invoices, lineItems, crashes, reqs, sent>>

\* Step 3
ExtractInvoiceData(w) ==
    /\ AtOp(w, 3)
    /\ wfs' = [wfs EXCEPT ![w] = [Executed(@, 3) EXCEPT !.mid = TRUE, !.tmp = "extracted"]]
    /\ UNCHANGED <<extraVars, now, files, invoices, lineItems, crashes, reqs, sent>>

\* Step 4
ValidateBusinessRules(w) ==
    /\ AtOp(w, 4)
    /\ LET x == extractInvoiceDataStep(wfs[w].filePath)
       IN wfs' = [wfs EXCEPT ![w] =
                    [Executed(@, 4) EXCEPT !.mid = TRUE,
                        !.tmp = validateBusinessRulesStep(x.extractedData, x.confidence)]]
    /\ UNCHANGED <<extraVars, now, files, invoices, lineItems, crashes, reqs, sent>>

\* The engine records the result of the step that has just returned
CheckpointStep(w) ==
    /\ w \in WfIds
    /\ wfs[w].status = "PENDING" /\ wfs[w].running /\ wfs[w].mid
    /\ LET run == wfs[w]
           op == run.done + 1
           rec == [run EXCEPT !.done = op, !.mid = FALSE, !.tmp = NULL]
       IN wfs' = [wfs EXCEPT ![w] =
                    IF op = 2 THEN [rec EXCEPT !.filePath = run.tmp]
                    ELSE IF op = 4 THEN [rec EXCEPT !.decided = run.tmp]
                    ELSE rec]
    /\ UNCHANGED <<extraVars, now, files, invoices, lineItems, crashes, reqs, sent>>

\* Step 5: createInvoiceTransaction (insert and checkpoint commit together)
CreateInvoice(w) ==
    /\ AtOp(w, 5)
    /\ LET row == [ status |-> wfs[w].decided, assigned_to |-> NULL, approved_by |-> NULL,
                    subtotal |-> ExtractedData.subtotal, tax_amount |-> ExtractedData.taxAmount,
                    total_amount |-> ExtractedData.totalAmount,
                    file_path |-> wfs[w].filePath, run |-> w ]
       IN /\ RowAccepted(row)
          /\ invoices' = Append(invoices, row)
          /\ wfs' = [wfs EXCEPT ![w] =
                       [Executed(@, 5) EXCEPT !.done = 5, !.invoiceId = Len(invoices) + 1]]
    /\ UNCHANGED <<extraVars, now, files, lineItems, crashes, reqs, sent>>

\* Step 6: createLineItemsTransaction, called when there are line items
CreateLineItems(w) ==
    /\ AtOp(w, 6)
    /\ LET items == ExtractedData.lineItems
       IN lineItems' =
            IF Len(items) > 0
            THEN lineItems \cup createLineItemsTransaction(wfs[w].invoiceId, items)
            ELSE lineItems
    /\ wfs' = [wfs EXCEPT ![w] = [Executed(@, 6) EXCEPT !.done = 6]]
    /\ UNCHANGED <<extraVars, now, files, invoices, crashes, reqs, sent>>

\* Step 7: getInvoiceByIdTransaction, then the workflow returns the invoice
ReadBack(w) ==
    /\ AtOp(w, 7)
    /\ wfs' = [wfs EXCEPT ![w] =
                 IF getInvoiceByIdTransaction(wfs[w].invoiceId) = <<>>
                 THEN [Executed(@, 7) EXCEPT !.status = "ERROR", !.running = FALSE]
                 ELSE [Executed(@, 7) EXCEPT !.done = 7, !.status = "SUCCESS", !.running = FALSE]]
    /\ UNCHANGED <<extraVars, now, files, invoices, lineItems, crashes, reqs, sent>>

\* A transaction of steps 5-7 raising (database error): that transaction
\* rolls back, the exception leaves the workflow function, the run fails
TransactionFails(w) ==
    /\ \E op \in 5..7 : AtOp(w, op)
    /\ wfs' = [wfs EXCEPT ![w] =
                 [Executed(@, wfs[w].done + 1) EXCEPT !.status = "ERROR", !.running = FALSE]]
    /\ UNCHANGED <<extraVars, now, files, invoices, lineItems, crashes, reqs, sent>>

\* The process dies and is restarted (which takes time): results not yet
\* checkpointed are lost, every PENDING run is resumed from its checkpoints
CrashAndRecover ==
    /\ crashes < MaxCrashes
    /\ \E w \in WfIds : wfs[w].status = "PENDING"
    /\ crashes' = crashes + 1
    /\ now' = now + 1
    /\ wfs' = [w \in WfIds |->
                 IF wfs[w].status = "PENDING"
                 THEN [wfs[w] EXCEPT !.mid = FALSE, !.tmp = NULL, !.running = TRUE]
                 ELSE wfs[w]]
    /\ UNCHANGED <<extraVars, files, invoices, lineItems, reqs, sent>>

invoiceProcessingWorkflow(w) ==
    \/ ValidateFile(w)
    \/ SaveFile(w)
    \/ SaveFileFails(w)
    \/ ExtractInvoiceData(w)
    \/ ValidateBusinessRules(w)
    \/ CheckpointStep(w)
    \/ CreateInvoice(w)
    \/ CreateLineItems(w)
    \/ ReadBack(w)
    \/ TransactionFails(w)

\* ------------------------------------------------- state-transition API
\* A client has at most one request outstanding.  Between the handler's read
\* transaction and its write transaction the request is "write"-pending and
\* other requests run; the response code is kept until the client's next
\* request.
NoBody == [subtotal |-> <<>>]
IdleReq ==
    [pc |-> "idle", kind |-> NULL, inv |-> 0, arg |-> NULL, body |-> NoBody, seen |-> NULL, code |-> NULL]
Pending(kind, inv, arg, body, seen) ==
    [pc |-> "write", kind |-> kind, inv |-> inv, arg |-> arg, body |-> body, seen |-> seen,
     code |-> NULL]
Answer(kind, inv, code) ==
    [pc |-> "done", kind |-> kind, inv |-> inv, arg |-> NULL, body |-> NoBody, seen |-> NULL,
     code |-> code]

CanSend(u) == reqs[u].pc # "write"
Writing(u, kind) == reqs[u].pc = "write" /\ reqs[u].kind = kind

RequestIds == 1..Len(wfs)      \* the :id of a request: an invoice of a started run, existing or not yet
Assignees == {"clerk1", BadId}   \* userId of an assign request
\* PUT bodies: subtotal is <<v>>, or <<>> when the body leaves it out
UpdatePayloads == { [subtotal |-> <<0>>], [subtotal |-> <<50000>>] }

\* updateInvoiceStatusTransaction: the row it writes
updateInvoiceStatusTransaction(invoiceId, status, assignedTo, approvedBy) ==
    [invoices[invoiceId] EXCEPT
        !.status = status,
        !.assigned_to = IF assignedTo # Undefined THEN assignedTo ELSE @,
        !.approved_by = IF approvedBy # Undefined THEN approvedBy ELSE @]

\* updateInvoiceDataTransaction: the row it writes
updateInvoiceDataTransaction(invoiceId, updateData) ==
    [invoices[invoiceId] EXCEPT
        !.subtotal = IF updateData.subtotal # <<>> THEN updateData.subtotal[1] ELSE @]

\* deleteInvoiceTransaction: the row it writes
deleteInvoiceTransaction(invoiceId) ==
    [invoices[invoiceId] EXCEPT !.status = "deleted"]

\* The UPDATE of a handler's write transaction and the handler's response:
\* a row the table rejects raises, the transaction rolls back and
\* handleError answers 500
WriteRow(u, row) ==
    LET r == reqs[u]
    IN IF RowAccepted(row)
       THEN /\ invoices' = [invoices EXCEPT ![r.inv] = row]
            /\ reqs' = [reqs EXCEPT ![u] = Answer(r.kind, r.inv, "OK")]
       ELSE /\ invoices' = invoices
            /\ reqs' = [reqs EXCEPT ![u] = Answer(r.kind, r.inv, "INTERNAL_ERROR")]

\* First half of a handler: input checks, read transaction, status check
Receive(u, kind, inv, arg, body, inputError, allowedFrom) ==
    LET existing == getInvoiceByIdTransaction(inv)
        \* existingInvoice.status is used after the check only by assign
        keep == IF kind = "assign" THEN existing[1].status ELSE NULL
    IN /\ reqs' = [reqs EXCEPT ![u] =
            IF inputError # NULL THEN Answer(kind, inv, inputError)
            ELSE IF existing = <<>> THEN Answer(kind, inv, "NOT_FOUND")
            ELSE IF existing[1].status \notin allowedFrom
                 THEN Answer(kind, inv, "INVALID_STATUS_TRANSITION")
                 ELSE Pending(kind, inv, arg, body, keep)]
       /\ UNCHANGED <<extraVars, now, files, wfs, invoices, lineItems, crashes>>

\* the same, counted against the bound on requests
ReadAndCheck(u, kind, inv, arg, body, inputError, allowedFrom) ==
    /\ Receive(u, kind, inv, arg, body, inputError, allowedFrom)
    /\ sent < MaxRequests
    /\ sent' = sent + 1

AnyStatus == StatusColumn    \* a handler that checks no status

\* POST /api/invoices/:id/submit-for-approval
SubmitRead(u, inv) ==
    /\ CanSend(u)
    /\ ReadAndCheck(u, "submit", inv, u, NoBody, NULL, {"needs_review"})
SubmitWrite(u) ==
    /\ Writing(u, "submit")
    /\ WriteRow(u, updateInvoiceStatusTransaction(reqs[u].inv, "awaiting_approval",
                                                  Undefined, Undefined))
    /\ UNCHANGED <<extraVars, now, files, wfs, lineItems, crashes, sent>>

\* POST /api/invoices/:id/approve (currentUserId is the x-user-id header)
ApproveReadUnchecked(u, inv, currentUserId) ==
    /\ CanSend(u)
    /\ ReadAndCheck(u, "approve", inv, currentUserId, NoBody,
                    IF currentUserId = BadId THEN "INVALID_USER_ID" ELSE NULL,
                    AnyStatus)
ApproveRead(u, inv, currentUserId) ==
    /\ CanSend(u)
    /\ ReadAndCheck(u, "approve", inv, currentUserId, NoBody,
                    IF currentUserId = BadId THEN "INVALID_USER_ID" ELSE NULL,
                    {"awaiting_approval"})
ApproveWrite(u) ==
    /\ Writing(u, "approve")
    /\ WriteRow(u, updateInvoiceStatusTransaction(reqs[u].inv, "approved",
                                                  Undefined, reqs[u].arg))
    /\ UNCHANGED <<extraVars, now, files, wfs, lineItems, crashes, sent>>

\* POST /api/invoices/:id/reject
RejectRead(u, inv, reason) ==
    /\ CanSend(u)
    /\ ReadAndCheck(u, "reject", inv, u, NoBody,
                    IF ~reason THEN "MISSING_REASON" ELSE NULL, AnyStatus)
RejectWrite(u) ==
    /\ Writing(u, "reject")
    /\ WriteRow(u, updateInvoiceStatusTransaction(reqs[u].inv, "rejected",
                                                  Undefined, Undefined))
    /\ UNCHANGED <<extraVars, now, files, wfs, lineItems, crashes, sent>>

\* POST /api/invoices/:id/assign
AssignRead(u, inv, userId) ==
    /\ CanSend(u)
    /\ ReadAndCheck(u, "assign", inv, userId, NoBody,
                    IF userId = BadId THEN "INVALID_USER_ID" ELSE NULL, AnyStatus)
AssignWrite(u) ==
    /\ Writing(u, "assign")
    /\ WriteRow(u, updateInvoiceStatusTransaction(reqs[u].inv, reqs[u].seen,
                                                  reqs[u].arg, Undefined))
    /\ UNCHANGED <<extraVars, now, files, wfs, lineItems, crashes, sent>>

\* PUT /api/invoices/:id (InvoiceUpdateSchema: subtotal is positive)
InvoiceUpdateSchema(body) == body.subtotal = <<>> \/ body.subtotal[1] > 0
UpdateRead(u, inv, body) ==
    /\ CanSend(u)
    /\ ReadAndCheck(u, "update", inv, u, body,
                    IF ~InvoiceUpdateSchema(body) THEN "VALIDATION_ERROR" ELSE NULL,
                    {"needs_review", "processing"})
UpdateWrite(u) ==
    /\ Writing(u, "update")
    /\ WriteRow(u, updateInvoiceDataTransaction(reqs[u].inv, reqs[u].body))
    /\ UNCHANGED <<extraVars, now, files, wfs, lineItems, crashes, sent>>

\* DELETE /api/invoices/:id
DeleteRead(u, inv) ==
    /\ CanSend(u)
    /\ ReadAndCheck(u, "delete", inv, u, NoBody, NULL, AnyStatus)
DeleteWrite(u) ==
    /\ Writing(u, "delete")
    /\ WriteRow(u, deleteInvoiceTransaction(reqs[u].inv))
    /\ UNCHANGED <<extraVars, now, files, wfs, lineItems, crashes, sent>>

\* ----------------------------------------------------------- idle values
NoUpload == [file |-> <<>>, metadata |-> "none", code |-> NULL, run |-> 0]
NoLines == [extracted |-> <<>>, stage |-> "idle", read |-> <<>>]

\* --------------------------------------------------------- upload endpoint
\* An upload request: req.file as multer would hand it over (<<>> when the
\* request has no file field) and the metadata form field: absent, JSON text
\* of the expected shape, JSON text of another shape, or text that is no JSON.
UploadRequests ==
    { [file |-> f, metadata |-> m] :
        f \in {<<>>} \cup
              { <<[originalname |-> "inv.pdf", mimetype |-> t, size |-> n, bytes |-> "bytesA"]>> :
                  t \in {"application/pdf", "image/jpg", "text/plain"},
                  n \in {2048, MAX_FILE_SIZE_BYTES, MAX_FILE_SIZE_BYTES + 1} },
        m \in {"none", "valid", "mistyped", "unparsable"} }

\* multer fileFilter
fileFilter(file) == file.mimetype \in {"application/pdf", "image/png", "image/jpeg"}

\* multer limits.fileSize: the multipart parser of multer 2 (busboy 1.x) marks
\* the file truncated, and multer raises LIMIT_FILE_SIZE, once the bytes read
\* for the file reach fileSize
LimitFileSize(file) == file.size >= MAX_FILE_SIZE_BYTES

\* InvoiceSubmissionSchema.safeParse({ file, metadata }).success
InvoiceSubmissionSchema(file, metadata) ==
    file.size <= MAX_FILE_SIZE_BYTES /\ metadata \in {"none", "valid"}

\* handleError: the code answered for an exception, by what its message contains
handleError(errorMessage) ==
    IF errorMessage = "INVALID_FILE_FORMAT" THEN "INVALID_FILE_FORMAT"
    ELSE IF errorMessage = "FILE_TOO_LARGE" THEN "FILE_TOO_LARGE"
    ELSE IF errorMessage = "not found" THEN "NOT_FOUND"
    ELSE "INTERNAL_ERROR"

\* The answer of POST /api/invoices/upload up to the start of the workflow:
\* upload.single('file') with the multer error middleware, then the handler
UploadAnswer(req) ==
    IF req.file # <<>> /\ ~fileFilter(req.file[1]) THEN "INVALID_FILE_FORMAT"
    ELSE IF req.file # <<>> /\ LimitFileSize(req.file[1]) THEN "FILE_TOO_LARGE"
    ELSE IF req.file = <<>> THEN "MISSING_FILE"
    ELSE IF req.metadata = "unparsable" THEN handleError("Unexpected token")
    ELSE IF ~InvoiceSubmissionSchema(req.file[1], req.metadata) THEN "VALIDATION_ERROR"
    ELSE "ACCEPTED"

\* POST /api/invoices/upload
UploadEndpoint(req, limit) ==
    LET code == UploadAnswer(req)
    IN /\ Len(wfs) < limit
       /\ wfs' = IF code = "ACCEPTED" THEN Append(wfs, NewRun(req.file[1])) ELSE wfs
       /\ lastUpload' = [file |-> req.file, metadata |-> req.metadata, code |-> code,
                         run |-> IF code = "ACCEPTED" THEN Len(wfs) + 1 ELSE 0]
       /\ UNCHANGED <<now, files, invoices, lineItems, crashes, reqs, sent, rules, lines>>

\* ------------------------------------------------------ line-item round trip
\* a select without ORDER BY: the rows in any order
Unordered(rows) ==
    { seq \in [1..Cardinality(rows) -> rows] : \A i, j \in DOMAIN seq : i # j => seq[i] # seq[j] }

\* .orderBy('line_number'): the rows by increasing line_number
OrderByLineNumber(rows) ==
    { seq \in [1..Cardinality(rows) -> rows] :
        /\ \A i, j \in DOMAIN seq : i # j => seq[i] # seq[j]
        /\ \A i, j \in DOMAIN seq : i < j => seq[i].line_number <= seq[j].line_number }

\* mapDatabaseToInvoiceResponse, lineItems part (line_total is decimal(12,2):
\* an amount in cents comes back as the same amount)
mapDatabaseToInvoiceResponse(rows) ==
    [k \in DOMAIN rows |-> [lineTotal |-> rows[k].line_total, lineNumber |-> rows[k].line_number]]

\* the workflow's step 6 on the items extracted for invoice 1
StoreLineItems ==
    /\ lines.stage = "extracted"
    /\ lineItems' = IF Len(lines.extracted) > 0
                    THEN lineItems \cup createLineItemsTransaction(1, lines.extracted)
                    ELSE lineItems
    /\ lines' = [lines EXCEPT !.stage = "stored"]
    /\ UNCHANGED <<now, files, wfs, invoices, crashes, reqs, sent, lastUpload, rules>>

\* getInvoiceByIdTransaction / getInvoicesWithVendorTransaction: the line items returned
ReadLineItems ==
    /\ lines.stage = "stored"
    /\ \E rows \in OrderByLineNumber(LineItemsOf(1)) :
         lines' = [lines EXCEPT !.stage = "read", !.read = mapDatabaseToInvoiceResponse(rows)]
    /\ UNCHANGED <<now, files, wfs, invoices, lineItems, crashes, reqs, sent, lastUpload, rules>>

\* -------------------------------------------------------- status decision
MaxLineItems == 2     \* line items of an extraction

LineTotals == {100, 101}
Subtotals == {200, 202}
TaxAmounts == {0, 16}
TotalAmounts == {200, 217, 218}
Confidences == {0, 74, 75, 94, 95, 100}

\* line-item arrays the extraction can return: lineNumber is the position
ItemArrays ==
    UNION { { [k \in 1..n |-> [lineTotal |-> f[k], lineNumber |-> k]] : f \in [1..n -> LineTotals] } :
              n \in 0..MaxLineItems }

\* results of an extraction (the argument of validateBusinessRulesStep)
Extractions ==
    { [extractedData |-> [subtotal |-> st, taxAmount |-> tx, totalAmount |-> tt, lineItems |-> its],
       confidence |-> [overallConfidence |-> c]] :
        st \in Subtotals, tx \in TaxAmounts, tt \in TotalAmounts, its \in ItemArrays, c \in Confidences }

NoRules ==
    [extractedData |-> ExtractedData, confidence |-> ExtractedConfidence, status |-> NULL,
     response |-> <<>>]

\* const status = await InvoiceOperations.validateBusinessRulesStep(extractedData, confidence)
DecideStatus ==
    /\ rules.status = NULL
    /\ rules' = [rules EXCEPT !.status = validateBusinessRulesStep(rules.extractedData, rules.confidence)]
    /\ UNCHANGED <<now, files, wfs, invoices, lineItems, crashes, reqs, sent, lastUpload, lines>>

\* createInvoiceTransaction on the extraction, with the status decided
StoreInvoice ==
    /\ rules.status # NULL /\ invoices = <<>>
    /\ LET row == [ status |-> rules.status, assigned_to |-> NULL, approved_by |-> NULL,
                    subtotal |-> rules.extractedData.subtotal,
                    tax_amount |-> rules.extractedData.taxAmount,
                    total_amount |-> rules.extractedData.totalAmount,
                    file_path |-> SavedPath(now, "inv.pdf"), run |-> 0 ]
       IN RowAccepted(row) /\ invoices' = <<row>>
    /\ UNCHANGED <<now, files, wfs, lineItems, crashes, reqs, sent, extraVars>>

\* parseFloat(column) || undefined on a decimal(12,2) column: <<amount>>, or
\* <<>> for undefined (0 is falsy)
ParseFloatOrUndefined(column) == IF column = 0 THEN <<>> ELSE <<column>>

\* mapDatabaseToInvoiceResponse, header amounts
InvoiceResponseAmounts(invoice) ==
    [ subtotal |-> ParseFloatOrUndefined(invoice.subtotal),
      taxAmount |-> ParseFloatOrUndefined(invoice.tax_amount),
      totalAmount |-> ParseFloatOrUndefined(invoice.total_amount) ]

\* getInvoiceByIdTransaction of the invoice stored: the response's header amounts
ReadInvoice ==
    /\ getInvoiceByIdTransaction(1) # <<>> /\ rules.response = <<>>
    /\ rules' = [rules EXCEPT
                   !.response = <<InvoiceResponseAmounts(getInvoiceByIdTransaction(1)[1])>>]
    /\ UNCHANGED <<now, files, wfs, invoices, lineItems, crashes, reqs, sent, lastUpload, lines>>

\* ------------------------------------------------------------ specifications
Init ==
    /\ now = 0
    /\ files = {}
    /\ wfs = <<>>
    /\ invoices = <<>>
    /\ lineItems = {}
    /\ crashes = 0
    /\ reqs = [u \in Users |-> IdleReq]
    /\ sent = 0
    /\ lastUpload = NoUpload
    /\ rules = NoRules
    /\ lines = NoLines

NextWF ==
    \/ UploadRequest(MaxUploads)
    \/ \E w \in WfIds : invoiceProcessingWorkflow(w)
    \/ CrashAndRecover

SpecWF == Init /\ [][NextWF]_vars

\* Spec follows the review of the first uploaded invoice: every endpoint
\* reads and writes only the row its :id names.
FirstUpload == wfs = <<>> /\ UploadRequest(MaxUploads)

Next ==
    \/ FirstUpload
    \/ \E w \in WfIds : invoiceProcessingWorkflow(w)
    \/ \E u \in Users, inv \in RequestIds :
        \/ SubmitRead(u, inv)
        \/ \E currentUserId \in {u, BadId} : ApproveRead(u, inv, currentUserId)
        \/ \E reason \in BOOLEAN : RejectRead(u, inv, reason)
        \/ \E userId \in Assignees : AssignRead(u, inv, userId)
        \/ \E body \in UpdatePayloads : UpdateRead(u, inv, body)
        \/ DeleteRead(u, inv)
    \/ \E u \in Users :
        \/ SubmitWrite(u)
        \/ ApproveWrite(u)
        \/ RejectWrite(u)
        \/ AssignWrite(u)
        \/ UpdateWrite(u)
        \/ DeleteWrite(u)

Spec == Init /\ [][Next]_vars

\* One run from its upload request on, with crashes
FirstUploadEndpoint == \E req \in UploadRequests : wfs = <<>> /\ UploadEndpoint(req, MaxUploads)

NextUpload ==
    \/ FirstUploadEndpoint
    \/ \E w \in WfIds : invoiceProcessingWorkflow(w)
    \/ CrashAndRecover

SpecUpload == Init /\ [][NextUpload]_vars

\* The status decision on any extraction
InitRules ==
    /\ now = 0 /\ files = {} /\ wfs = <<>> /\ invoices = <<>> /\ lineItems = {}
    /\ crashes = 0 /\ reqs = [u \in Users |-> IdleReq] /\ sent = 0
    /\ lastUpload = NoUpload /\ lines = NoLines
    /\ \E x \in Extractions :
         rules = [extractedData |-> x.extractedData, confidence |-> x.confidence, status |-> NULL,
                  response |-> <<>>]

NextRules == DecideStatus \/ StoreInvoice \/ ReadInvoice

SpecRules == InitRules /\ [][NextRules]_vars

\* The line items of invoice 1 stored and read back, next to those of invoice 2
InitLines ==
    /\ now = 0 /\ files = {} /\ wfs = <<>> /\ crashes = 0
    /\ reqs = [u \in Users |-> IdleReq] /\ sent = 0
    /\ lastUpload = NoUpload /\ rules = NoRules
    /\ invoices = [i \in 1..2 |->
                     [status |-> "needs_review", assigned_to |-> NULL, approved_by |-> NULL,
                      subtotal |-> ExtractedData.subtotal, tax_amount |-> ExtractedData.taxAmount,
                      total_amount |-> ExtractedData.totalAmount,
                      file_path |-> SavedPath(i, "inv.pdf"), run |-> i]]
    /\ \E mine \in ItemArrays, other \in ItemArrays :
         /\ lines = [extracted |-> mine, stage |-> "extracted", read |-> <<>>]
         /\ lineItems = createLineItemsTransaction(2, other)

NextLines == StoreLineItems \/ ReadLineItems

SpecLines == InitLines /\ [][NextLines]_vars

\* ------------------------------------------------------------------ claims
InvoiceRows == 1..Len(invoices)
RowsOfRun(w) == {i \in InvoiceRows : invoices[i].run = w}
Manager(u) == UserRole[u] \in {"finance_manager", "admin"}
Clerk(u) == UserRole[u] \in {"finance_clerk", "admin"}
Answered(u, kind, code) ==
    reqs[u].pc = "done" /\ reqs[u].kind = kind /\ reqs[u].code = code

\* C1: two approve requests against the same awaiting_approval invoice never
\* both succeed (here: two managers' approvals of one invoice are never both
\* answered with success).
C1_NeverTwoApprovals ==
    \A u1, u2 \in Users :
        (u1 # u2 /\ Manager(u1) /\ Manager(u2)
         /\ Answered(u1, "approve", "OK") /\ Answered(u2, "approve", "OK"))
        => reqs[u1].inv # reqs[u2].inv

\* C2: the same upload submitted twice (a retry, or a crash and restart, of
\* the same upload request) yields at most one invoice row and one set of line
\* items, and no second file is written for it.
C2_OneInvoicePerUpload ==
    \A file \in UploadFiles :
        LET runs == {w \in WfIds : wfs[w].file = file}
            rows == {i \in InvoiceRows : invoices[i].run \in runs}
        IN /\ Cardinality(rows) <= 1
           /\ Cardinality({li \in lineItems : li.invoice_id \in rows})
                <= Len(ExtractedData.lineItems)
           /\ Cardinality({f \in files : f.bytes = file.bytes}) <= 1

\* C3: invoice creation is all-or-nothing: a failed run leaves no invoice row
\* and no line item, a successful run leaves the row and every line item.
C3_AllOrNothing ==
    \A w \in WfIds :
        LET items == {li \in lineItems : li.invoice_id \in RowsOfRun(w)}
        IN /\ wfs[w].status = "ERROR" => RowsOfRun(w) = {} /\ items = {}
           /\ wfs[w].status = "SUCCESS" =>
                /\ Cardinality(RowsOfRun(w)) = 1
                /\ Cardinality(items) = Len(ExtractedData.lineItems)

\* C4: across crashes and recoveries every operation with a side effect
\* (save-file, extract, create-invoice, create-line-items, read-back) executes
\* at most once in a run.
C4_AtMostOnce ==
    \A w \in WfIds : \A op \in {2, 3, 5, 6, 7} : wfs[w].execs[op] <= 1

\* C5: an approve request that finds the invoice in a status other than
\* awaiting_approval is answered INVALID_STATUS_TRANSITION in that step, writes
\* nothing and has no write pending: status and approved_by keep their values.
C5_ApproveFromOtherStatusFails ==
    [][ \A u \in Users :
          ( /\ CanSend(u)
            /\ reqs'[u] # reqs[u]
            /\ reqs'[u].kind = "approve"
            /\ reqs'[u].code # "INVALID_USER_ID"
            /\ getInvoiceByIdTransaction(reqs'[u].inv) # <<>>
            /\ invoices[reqs'[u].inv].status # "awaiting_approval" )
          => /\ reqs'[u].pc = "done"
             /\ reqs'[u].code = "INVALID_STATUS_TRANSITION"
             /\ invoices' = invoices ]_vars

C5_Witness ==
    \E u \in Users :
        /\ Answered(u, "approve", "INVALID_STATUS_TRANSITION")
        /\ reqs[u].inv \in InvoiceRows
        /\ invoices[reqs[u].inv].status = "needs_review"
        /\ invoices[reqs[u].inv].approved_by = NULL

\* C6: no approve or reject succeeds for an actor who is not manager or admin,
\* no submit-for-approval for an actor who is not clerk or admin.
C6_RoleGate ==
    \A u \in Users :
        /\ (Answered(u, "approve", "OK") \/ Answered(u, "reject", "OK")) => Manager(u)
        /\ Answered(u, "submit", "OK") => Clerk(u)

\* C7: a reject is answered with success, and sets the status to rejected,
\* only when the invoice is awaiting_approval; otherwise the status is kept.
C7_RejectOnlyFromAwaiting ==
    [][ \A u \in Users :
          (Writing(u, "reject") /\ reqs'[u].pc = "done")
          => IF invoices[reqs[u].inv].status = "awaiting_approval"
             THEN reqs'[u].code = "OK" /\ invoices'[reqs[u].inv].status = "rejected"
             ELSE reqs'[u].code = "INVALID_STATUS_TRANSITION" /\ invoices' = invoices ]_vars

\* C8: approved_by is set exactly on the invoices whose status is approved.
C8_ApprovedByIffApproved ==
    \A i \in InvoiceRows :
        (invoices[i].approved_by # NULL) <=> (invoices[i].status = "approved")

\* The row a pending request sends to the table in its write transaction
RowToWrite(u) ==
    LET r == reqs[u]
    IN CASE r.kind = "submit" ->
              updateInvoiceStatusTransaction(r.inv, "awaiting_approval", Undefined, Undefined)
         [] r.kind = "approve" ->
              updateInvoiceStatusTransaction(r.inv, "approved", Undefined, r.arg)
         [] r.kind = "reject" ->
              updateInvoiceStatusTransaction(r.inv, "rejected", Undefined, Undefined)
         [] r.kind = "assign" ->
              updateInvoiceStatusTransaction(r.inv, r.seen, r.arg, Undefined)
         [] r.kind = "update" -> updateInvoiceDataTransaction(r.inv, r.body)
         [] r.kind = "delete" -> deleteInvoiceTransaction(r.inv)

\* C9: every stored status is a value of the status enumeration, and every
\* status an operation writes (delete's included) is one the table accepts.
C9_StatusInEnum ==
    /\ \A i \in InvoiceRows : invoices[i].status \in InvoiceStatus
    /\ \A u \in Users : reqs[u].pc = "write" => RowToWrite(u).status \in StatusColumn

\* C10: delete is a soft delete: a delete of an existing invoice succeeds and
\* leaves the row, with its line items, in the deleted status.
C10_DeleteMarksDeleted ==
    \A u \in Users :
        (reqs[u].pc = "done" /\ reqs[u].kind = "delete" /\ reqs[u].code # "NOT_FOUND")
        => /\ reqs[u].code = "OK"
           /\ invoices[reqs[u].inv].status = "deleted"

\* C11: assign leaves the status alone: the write of an assign request never
\* changes the status of the invoice, whatever was written since its read.
C11_AssignKeepsStatus ==
    [][ \A u \in Users :
          (Writing(u, "assign") /\ reqs'[u].pc = "done")
          => invoices'[reqs[u].inv].status = invoices[reqs[u].inv].status ]_vars

\* C12: a field edit is written only to an invoice that is processing or
\* needs_review at the time of the write; otherwise nothing changes.
C12_EditOnlyWhileEditable ==
    [][ \A u \in Users :
          (Writing(u, "update") /\ reqs'[u].pc = "done"
           /\ invoices[reqs[u].inv].status \notin {"processing", "needs_review"})
          => /\ invoices' = invoices
             /\ reqs'[u].code = "INVALID_STATUS_TRANSITION" ]_vars

\* C13: a submit-for-approval that succeeds moves the invoice from
\* needs_review to awaiting_approval and keeps assigned_to and approved_by;
\* from any other status it fails with INVALID_STATUS_TRANSITION and the table
\* is unchanged.
C13_SubmitOnlyFromNeedsReview ==
    [][ \A u \in Users :
          (Writing(u, "submit") /\ reqs'[u].pc = "done")
          => LET old == invoices[reqs[u].inv]
                 new == invoices'[reqs[u].inv]
             IN IF old.status = "needs_review"
                THEN /\ reqs'[u].code = "OK"
                     /\ new = [old EXCEPT !.status = "awaiting_approval"]
                ELSE /\ reqs'[u].code = "INVALID_STATUS_TRANSITION"
                     /\ invoices' = invoices ]_vars

\* differences the status decision is about, of the extraction in rules
SubtotalDiff == Abs(SumLineTotals(rules.extractedData.lineItems) - rules.extractedData.subtotal)
TotalDiff ==
    Abs(rules.extractedData.subtotal + rules.extractedData.taxAmount - rules.extractedData.totalAmount)
Decided == rules.status # NULL

\* C14: when the line items' lineTotal sum differs from the subtotal by more
\* than 0.01 the decision is needs_review, whatever the confidence.
C14_SubtotalMismatchNeedsReview ==
    (Decided /\ SubtotalDiff > MATH_TOLERANCE) => rules.status = "needs_review"

C14_Witness ==
    /\ Decided /\ SubtotalDiff > MATH_TOLERANCE /\ TotalDiff = 0
    /\ rules.confidence.overallConfidence >= CONFIDENCE_THRESHOLD_AUTO_APPROVAL
    /\ rules.status = "needs_review"

\* C15: when overallConfidence is below 0.75 the decision is needs_review,
\* even if all amounts reconcile exactly.
C15_LowConfidenceNeedsReview ==
    (Decided /\ rules.confidence.overallConfidence < LOW_CONFIDENCE_THRESHOLD)
    => rules.status = "needs_review"

C15_Witness ==
    /\ Decided /\ rules.confidence.overallConfidence = LOW_CONFIDENCE_THRESHOLD - 1
    /\ SubtotalDiff = 0 /\ TotalDiff = 0
    /\ rules.extractedData.lineItems # <<>>
    /\ rules.status = "needs_review"

\* C16: with amounts reconciling to the cent, overallConfidence of exactly
\* 0.95 gives awaiting_approval and any confidence below 0.95 gives
\* needs_review.
C16_ThresholdInclusive ==
    (Decided /\ SubtotalDiff = 0 /\ TotalDiff = 0)
    => /\ rules.confidence.overallConfidence = CONFIDENCE_THRESHOLD_AUTO_APPROVAL
            => rules.status = "awaiting_approval"
       /\ rules.confidence.overallConfidence < CONFIDENCE_THRESHOLD_AUTO_APPROVAL
            => rules.status = "needs_review"

C16_Witness ==
    /\ Decided /\ SubtotalDiff = 0 /\ TotalDiff = 0
    /\ rules.extractedData.lineItems # <<>>
    /\ rules.confidence.overallConfidence = CONFIDENCE_THRESHOLD_AUTO_APPROVAL
    /\ rules.status = "awaiting_approval"

\* C17: an upload of exactly 10,485,760 bytes of an allowed type is accepted
\* by the upload middleware, the submission schema and the validate-file step;
\* one of 10,485,761 bytes is answered FILE_TOO_LARGE before any step runs.
C17_SizeBoundary ==
    (lastUpload.file # <<>> /\ lastUpload.metadata = "none"
     /\ lastUpload.file[1].mimetype = "application/pdf")
    => LET file == lastUpload.file[1]
       IN /\ file.size = MAX_FILE_SIZE_BYTES =>
                /\ lastUpload.code = "ACCEPTED"
                /\ InvoiceSubmissionSchema(file, lastUpload.metadata)
                /\ validateFileStep(file) = "ok"
          /\ file.size = MAX_FILE_SIZE_BYTES + 1 =>
                /\ lastUpload.code = "FILE_TOO_LARGE"
                /\ wfs = <<>> /\ files = {}

\* the error kinds an upload request calls for
UploadFaults(req) ==
    (IF req.file = <<>> THEN {"MISSING_FILE"} ELSE {})
    \cup (IF req.file # <<>> /\ req.file[1].mimetype = "text/plain"
          THEN {"INVALID_FILE_FORMAT"} ELSE {})
    \cup (IF req.file # <<>> /\ req.file[1].size > MAX_FILE_SIZE_BYTES
          THEN {"FILE_TOO_LARGE"} ELSE {})
    \cup (IF req.metadata \in {"mistyped", "unparsable"} THEN {"VALIDATION_ERROR"} ELSE {})

\* C18: an upload request without a file, of an unsupported type, oversized
\* or with a malformed payload is answered with one of its error kinds, and
\* the step that answers it starts no run and writes no file and no row.
C18_RejectedBeforeWorkflow ==
    [][ \A req \in UploadRequests :
          (lastUpload' # lastUpload
           /\ lastUpload'.file = req.file /\ lastUpload'.metadata = req.metadata
           /\ UploadFaults(req) # {})
          => /\ lastUpload'.code \in UploadFaults(req)
             /\ UNCHANGED <<wfs, files, invoices, lineItems>> ]_vars

\* C20: within a run an operation executes only while the run has not failed,
\* after all its predecessors have completed and before any later operation
\* has executed.
C20_DeclaredOrder ==
    [][ \A w \in WfIds : \A op \in Ops :
          wfs'[w].execs[op] > wfs[w].execs[op]
          => /\ wfs[w].status = "PENDING"
             /\ wfs[w].done >= op - 1
             /\ \A later \in Ops : later > op => wfs[w].execs[later] = 0 ]_vars

C20_Witness ==
    \E w \in WfIds :
        /\ wfs[w].status = "SUCCESS"
        /\ \A op \in Ops : wfs[w].execs[op] >= 1
        /\ crashes > 0

\* C19: the line items of an invoice are read back in increasing lineNumber
\* order 1..n, which is the order in which the extraction produced them.
C19_LineItemsInOrder ==
    lines.stage = "read"
    => /\ Len(lines.read) = Len(lines.extracted)
       /\ \A k \in DOMAIN lines.read : lines.read[k].lineNumber = k
       /\ lines.read = lines.extracted

C19_Witness ==
    /\ lines.stage = "read"
    /\ Len(lines.extracted) = 2
    /\ lines.extracted[1].lineTotal > lines.extracted[2].lineTotal
    /\ lines.read = lines.extracted
    /\ \E li \in lineItems : li.invoice_id = 2

\* C21: an invoice row exists only for a run whose validate-file, save-file,
\* extract and validate-business-rules steps have all completed (the row
\* carries the saved path and the decided status), and a run that failed in
\* one of these steps has no invoice row and no line item.
C21_NoRowBeforeCreate ==
    /\ \A i \in InvoiceRows :
          LET run == wfs[invoices[i].run]
          IN /\ run.done >= 4
             /\ \A op \in 1..4 : run.execs[op] >= 1
             /\ run.filePath # NULL /\ invoices[i].file_path = run.filePath
             /\ \E f \in files : f.path = run.filePath
             /\ run.decided \in InvoiceStatus
    /\ \A w \in WfIds :
          (wfs[w].status = "ERROR" /\ wfs[w].done < 4)
          => /\ RowsOfRun(w) = {}
             /\ \A li \in lineItems : li.invoice_id \notin RowsOfRun(w)
             /\ wfs[w].invoiceId = 0

C21_Witness ==
    /\ \E w \in WfIds :
          /\ wfs[w].status = "ERROR" /\ wfs[w].done = 1 /\ wfs[w].execs[2] >= 1
          /\ RowsOfRun(w) = {}
    /\ invoices = <<>> /\ lineItems = {}

\* C22: a run fails in the save-file step only after the step has been
\* attempted again (a bounded retry policy re-executes a step that raises).
C22_RaisingStepIsRetried ==
    \A w \in WfIds :
        (wfs[w].status = "ERROR" /\ wfs[w].done = 1) => wfs[w].execs[2] >= 2

\* C23: the bytes stored for an upload are never replaced: every invoice's
\* file path holds the bytes of its own upload, and two runs never record
\* the same path.
C23_StoredBytesKept ==
    /\ \A i \in InvoiceRows :
          \E f \in files : /\ f.path = invoices[i].file_path
                           /\ f.bytes = wfs[invoices[i].run].file.bytes
    /\ \A w1, w2 \in WfIds :
          (w1 # w2 /\ wfs[w1].filePath # NULL /\ wfs[w2].filePath # NULL)
          => wfs[w1].filePath # wfs[w2].filePath

\* the rejection reason kept with an invoice row: the invoices table has no
\* column for it and the handler passes only the status to the update
RecordedReason(row) == NULL

\* C24: a reject request without a reason is answered MISSING_REASON and
\* changes no row, and a reject that succeeds leaves its reason recorded with
\* the invoice.
C24_RejectRecordsReason ==
    [][ \A u \in Users :
          /\ (CanSend(u) /\ reqs'[u] # reqs[u] /\ reqs'[u].kind = "reject"
              /\ reqs'[u].code = "MISSING_REASON")
             => invoices' = invoices
          /\ (Writing(u, "reject") /\ reqs'[u].pc = "done" /\ reqs'[u].code = "OK")
             => RecordedReason(invoices'[reqs[u].inv]) # NULL ]_vars

\* C25: on every extraction and confidence the validate-business-rules step
\* returns awaiting_approval exactly when overallConfidence >= 0.95 and both
\* differences (taken exactly, in cents) are at most 0.01, and needs_review
\* otherwise; it returns no other status.
C25_AgreesWithDecideStatus ==
    Decided => /\ rules.status = "awaiting_approval"
                  <=> /\ rules.confidence.overallConfidence >= CONFIDENCE_THRESHOLD_AUTO_APPROVAL
                      /\ SubtotalDiff <= MATH_TOLERANCE
                      /\ TotalDiff <= MATH_TOLERANCE
               /\ rules.status \in {"needs_review", "awaiting_approval"}

\* The workflow invoked on any file object (the validate-file step is the
\* first thing it runs, whatever the caller has checked)
StepFiles ==
    { [originalname |-> "inv.pdf", mimetype |-> t, size |-> n, bytes |-> "bytesA"] :
        t \in {"application/pdf", "image/png", "image/jpeg", "image/jpg", "text/plain"},
        n \in {2048, MAX_FILE_SIZE_BYTES, MAX_FILE_SIZE_BYTES + 1} }

InitFile ==
    /\ now = 0 /\ files = {} /\ invoices = <<>> /\ lineItems = {}
    /\ crashes = 0 /\ reqs = [u \in Users |-> IdleReq] /\ sent = 0
    /\ lastUpload = NoUpload /\ rules = NoRules /\ lines = NoLines
    /\ \E file \in StepFiles : wfs = <<NewRun(file)>>

NextFile == \E w \in WfIds : invoiceProcessingWorkflow(w)

SpecFile == InitFile /\ [][NextFile]_vars

\* the outcome of the validate-file step of run w, once it has executed
ValidateFileOutcome(w) ==
    IF wfs[w].status = "ERROR" /\ wfs[w].done = 0 THEN wfs[w].tmp ELSE "ok"

\* C26: the validate-file step succeeds exactly for a file of type
\* application/pdf, image/png or image/jpeg of at most 10 MiB, fails with
\* InvalidFileFormat for any other type whatever the size and with
\* FileTooLarge for an allowed type above the limit, and accepts a MIME type
\* exactly when the upload filter accepts it.
C26_ValidateFileExact ==
    \A w \in WfIds :
        wfs[w].execs[1] >= 1 =>
            LET file == wfs[w].file
                allowed == file.mimetype \in {"application/pdf", "image/png", "image/jpeg"}
            IN /\ ValidateFileOutcome(w) =
                    IF ~allowed THEN "INVALID_FILE_FORMAT"
                    ELSE IF file.size > MAX_FILE_SIZE_BYTES THEN "FILE_TOO_LARGE"
                    ELSE "ok"
               /\ (ValidateFileOutcome(w) # "INVALID_FILE_FORMAT") <=> fileFilter(file)

\* C27: approved and rejected are final: no step changes the status of an
\* invoice that is approved or rejected.
C27_DecisionsFinal ==
    [][ \A i \in InvoiceRows :
          invoices[i].status \in {"approved", "rejected"}
          => invoices'[i].status = invoices[i].status ]_vars

\* The review of the first invoice with clients that never stop sending
\* requests: the read halves of submit, approve, reject and assign with no
\* bound on their number; the write halves are those of Spec.
SubmitAnyTime(u, inv) ==
    /\ CanSend(u)
    /\ Receive(u, "submit", inv, u, NoBody, NULL, {"needs_review"})
    /\ UNCHANGED sent
ApproveAnyTime(u, inv) ==
    /\ CanSend(u)
    /\ Receive(u, "approve", inv, u, NoBody, NULL, {"awaiting_approval"})
    /\ UNCHANGED sent
RejectAnyTime(u, inv) ==
    /\ CanSend(u)
    /\ Receive(u, "reject", inv, u, NoBody, NULL, AnyStatus)
    /\ UNCHANGED sent
AssignAnyTime(u, inv) ==
    /\ CanSend(u)
    /\ Receive(u, "assign", inv, "clerk1", NoBody, NULL, AnyStatus)
    /\ UNCHANGED sent

\* clerk1 submits, manager1 approves or rejects, manager2 assigns
NextLive ==
    \/ FirstUpload
    \/ \E w \in WfIds : invoiceProcessingWorkflow(w)
    \/ \E inv \in RequestIds :
        \/ SubmitAnyTime("clerk1", inv)
        \/ ApproveAnyTime("manager1", inv)
        \/ RejectAnyTime("manager1", inv)
        \/ AssignAnyTime("manager2", inv)
    \/ \E u \in Users :
        \/ SubmitWrite(u)
        \/ ApproveWrite(u)
        \/ RejectWrite(u)
        \/ AssignWrite(u)

\* a request of user u that passes the handler's checks
Accepted(u) == reqs'[u].pc = "write"
\* the invoice is in the status from which approve and reject are permitted
AwaitingApproval(inv) ==
    /\ getInvoiceByIdTransaction(inv) # <<>>
    /\ getInvoiceByIdTransaction(inv)[1].status = "awaiting_approval"

\* Fairness: a handler that has read runs on to its write (the event loop
\* resumes every awaited transaction); a submit-for-approval that the handler
\* accepts is eventually sent while it stays possible, and so is an approve
\* or reject of an invoice that awaits approval.
FairLive ==
    /\ \A u \in Users : WF_reqs(SubmitWrite(u) \/ ApproveWrite(u) \/ RejectWrite(u) \/ AssignWrite(u))
    /\ WF_reqs(\E inv \in RequestIds : SubmitAnyTime("clerk1", inv) /\ Accepted("clerk1"))
    /\ WF_reqs(\E inv \in RequestIds :
                 /\ AwaitingApproval(inv)
                 /\ ApproveAnyTime("manager1", inv) \/ RejectAnyTime("manager1", inv)
                 /\ Accepted("manager1"))

SpecLive == Init /\ [][NextLive]_vars /\ FairLive

\* C28: every created invoice eventually reaches approved or rejected, under
\* weak fairness on submit-for-approval and on approve/reject.
C28_EventuallyDecided ==
    (Len(invoices) >= 1)
    ~> (Len(invoices) >= 1 /\ invoices[1].status \in {"approved", "rejected"})

\* C29: with the extraction shipped in the repository every invoice is
\* created in needs_review (never awaiting_approval or processing), a run
\* creates at most one invoice, and a run that completes has created exactly
\* one invoice with exactly one line item.
C29_ShippedExtractionNeedsReview ==
    /\ \A i \in InvoiceRows : invoices[i].status = "needs_review"
    /\ \A w \in WfIds :
          /\ wfs[w].decided \in {NULL, "needs_review"}
          /\ Cardinality(RowsOfRun(w)) <= 1
          /\ wfs[w].status = "SUCCESS"
             => /\ Cardinality(RowsOfRun(w)) = 1
                /\ \A i \in RowsOfRun(w) : Cardinality(LineItemsOf(i)) = 1

C29_Witness ==
    \E w \in WfIds :
        /\ wfs[w].status = "SUCCESS" /\ wfs[w].execs[1] >= 1
        /\ \E i \in RowsOfRun(w) :
              invoices[i].status = "needs_review" /\ Cardinality(LineItemsOf(i)) = 1

\* C30: the invoice read back carries the subtotal, taxAmount and totalAmount
\* that createInvoiceTransaction wrote, an amount of 0 included.
C30_AmountsRoundTrip ==
    rules.response # <<>>
    => /\ rules.response[1].subtotal = <<rules.extractedData.subtotal>>
       /\ rules.response[1].taxAmount = <<rules.extractedData.taxAmount>>
       /\ rules.response[1].totalAmount = <<rules.extractedData.totalAmount>>

====
